---- MODULE Spec2Model ----
(***************************************************************************)
(* gbiz_bulk_collector.py: the dump / hydrate / pipeline commands as a     *)
(* sequential state machine.  One behaviour is a sequence of invocations   *)
(* of the same command line against the same two CSV files (the command is *)
(* re-run with --resume added, which is what the flag is for); the first   *)
(* invocation runs with or without --resume.                               *)
(*                                                                         *)
(* Strings are sequences of one-character strings, so that str.strip() is  *)
(* computed.  Optional[str] is a sequence of length 0 (None) or 1.         *)
(* A list row is modelled by its corporate_number column; the name column  *)
(* is copied through unchanged by the code and is left out.  The retry     *)
(* loop of urllib3 is inside session.get: a response here is the final     *)
(* answer after the retries.  time.sleep and the periodic progress lines   *)
(* change no file and no decision and are left out.                       *)
(***************************************************************************)
EXTENDS Integers, Sequences, FiniteSets, TLC

\* ---- bounds of the model ------------------------------------------------
MaxRuns == 2          \* invocations of the tool in one behaviour
NumPrefs == 2         \* regions enumerated by --pref all (47 in the code)
MaxPageLen == 2       \* items in one list response
MaxInputRows == 2     \* rows of a user-supplied hydrate input file

\* ---- program constants --------------------------------------------------
LimitCeiling == 5000
PagesCeiling == 10

None == << >>
Some(s) == << s >>

A == << "A" >>
PadA == << " ", "A" >>
B == << "B" >>
ATrail == << "A", " " >>
Blank == << " " >>

\* corporate_number values the list endpoint may put in an item
ServerNumbers == { None, Some(A), Some(PadA), Some(B) }
\* corporate_number cells of a user-supplied input file
InputNumbers == { Blank, A, ATrail, B }
\* --limit and --max-pages values given on the command line
LimitArgs == { 2, 5001 }
MaxPagesArgs == { 0, 2 }
\* a --max-pages value above the ceiling, tried on a single region
OverPagesArg == PagesCeiling + 1

SeqsUpTo(S, n) == UNION { [1..k -> S] : k \in 0..n }

Min(a, b) == IF a < b THEN a ELSE b
Max(a, b) == IF a > b THEN a ELSE b

IsPrefix(s, t) == Len(s) <= Len(t) /\ SubSeq(t, 1, Len(s)) = s

\* ---- str.strip() --------------------------------------------------------
RECURSIVE LStrip(_)
LStrip(s) == IF s = << >> THEN s
             ELSE IF Head(s) = " " THEN LStrip(Tail(s)) ELSE s

RECURSIVE RStrip(_)
RStrip(s) == IF s = << >> THEN s
             ELSE IF s[Len(s)] = " " THEN RStrip(SubSeq(s, 1, Len(s) - 1)) ELSE s

Strip(s) == RStrip(LStrip(s))

\* (x or "")
OrEmpty(opt) == IF opt = None THEN << >> ELSE opt[1]

\* (row.get("corporate_number") or "").strip()
Cno(opt) == Strip(OrEmpty(opt))

\* ---- CSV files ----------------------------------------------------------
\* a file is absent, or a header followed by rows; a row is its
\* corporate_number cell
NoFile == [exists |-> FALSE, rows |-> << >>]

\* csv.DictWriter writes None as the empty cell
CsvCell(opt) == OrEmpty(opt)

StrippedCells(rows) == { Strip(rows[i]) : i \in 1..Len(rows) }

ReadNothing(file) == {}

read_existing_numbers(file) ==
    IF ~file.exists THEN {}
    ELSE { c \in StrippedCells(file.rows) : c # << >> }

append_rows(file, opt) ==
    [exists |-> TRUE, rows |-> Append(file.rows, CsvCell(opt))]

\* ---- HTTP ---------------------------------------------------------------
\* status -1: session.get raised Timeout / ConnectionError
ListResponses ==
    { [status |-> 200, items |-> its] : its \in SeqsUpTo(ServerNumbers, MaxPageLen) }
    \cup { [status |-> s, items |-> << >>] : s \in {204, 500, -1} }

\* _get_json: raised, or the "hojin-infos" array
GetJsonLenient(resp) ==
    [raised |-> FALSE, items |-> resp.items]

_get_json(resp) ==
    IF resp.status = 204 THEN [raised |-> FALSE, items |-> << >>]
    ELSE IF resp.status # 200 THEN [raised |-> TRUE, items |-> << >>]
    ELSE [raised |-> FALSE, items |-> resp.items]

DetailResponses ==
    { [status |-> s, found |-> f] : s \in {200}, f \in BOOLEAN }
    \cup { [status |-> s, found |-> FALSE] : s \in {204, 404, 500, -1} }

\* fetch_basic_with_session: "rec", "none" or "raise"
FetchStrict(resp) ==
    IF resp.status = 200 /\ resp.found THEN "rec" ELSE "raise"

fetch_basic_with_session(resp) ==
    IF resp.status = -1 THEN "raise"
    ELSE IF resp.status = 200 THEN (IF resp.found THEN "rec" ELSE "none")
    ELSE IF resp.status \in {204, 404} THEN "none"
    ELSE "raise"

NoResponse == [status |-> 0, found |-> FALSE]

\* except Exception as e: every exception of the fetch is caught
CaughtNever(res) == FALSE

Caught(res) == TRUE

\* errors += 1 in the except clause
NextErrorsForgot(e, res) == e

NextErrors(e, res) == IF res = "raise" THEN e + 1 ELSE e

\* ---- command line -------------------------------------------------------
Clamp(v, lo, hi) == Min(Max(lo, v), hi)

\* targets: range(1, 48) for "all", else the one region
Targets(pref) == IF pref = "all" THEN [i \in 1..NumPrefs |-> i] ELSE << pref >>

PrefArgs == { "all", "13" }

\* --in: the list file's path, a path that does not exist, or a file of the user
ListPath == [kind |-> "list", rows |-> << >>]
MissingPath == [kind |-> "missing", rows |-> << >>]
UserFiles == { [kind |-> "user", rows |-> rs] : rs \in SeqsUpTo(InputNumbers, MaxInputRows) }
InfileArgs == { MissingPath } \cup UserFiles

NoArgs == [cmd |-> "none", pref |-> "all", limit |-> 0, max_pages |-> 0, infile |-> ListPath]

\* the command lines tried: dump and pipeline write and read the list file,
\* hydrate reads a file of the user
CommandLines ==
    { [cmd |-> c, pref |-> p, limit |-> l, max_pages |-> m, infile |-> ListPath] :
          c \in {"dump", "pipeline"}, p \in PrefArgs, l \in LimitArgs, m \in MaxPagesArgs }
    \cup { [cmd |-> c, pref |-> "13", limit |-> l, max_pages |-> OverPagesArg, infile |-> ListPath] :
          c \in {"dump", "pipeline"}, l \in LimitArgs }
    \cup { [cmd |-> "hydrate", pref |-> "all", limit |-> 0, max_pages |-> 0, infile |-> f] :
          f \in InfileArgs }

\* limit=min(max(1, args.limit), 5000)
DumpLimit(l) == Clamp(l, 1, LimitCeiling)

\* max_pages=min(max(1, args.max_pages), 10)
DumpMaxPages(m) == Clamp(m, 1, PagesCeiling)

\* limit=args.limit
PipelineLimit(l) == l

\* max_pages=args.max_pages
PipelineMaxPages(m) == m

\* page in range(1, max_pages + 1)
PageInRangeOffByOne(p, m) == p >= 1 /\ p <= m + 1

PageInRange(p, m) == p >= 1 /\ p <= m

\* if len(items) < limit: break
LastPageNever(n, l) == FALSE

LastPage(n, l) == n < l

\* if not cno or cno in seen: continue
CollectSkips(cno, s) == cno = << >> \/ cno \in s

\* if not cno or cno in processed: continue
HydrateSkipsEmptyOnly(cno, s) == cno = << >>

HydrateSkips(cno, s) == cno = << >> \/ cno \in s

\* for it in items: yield {"corporate_number": it.get("corporate_number"), ...}
Yields(its) == its

\* main's loop body over the rows of one page: lines 475-481 and 515-520
RECURSIVE ConsumeRows(_, _, _)
ConsumeRows(rows, file, s) ==
    IF rows = << >> THEN [file |-> file, seen |-> s]
    ELSE LET cno == Cno(Head(rows)) IN
         IF CollectSkips(cno, s)
         THEN ConsumeRows(Tail(rows), file, s)
         ELSE ConsumeRows(Tail(rows), append_rows(file, Head(rows)), s \cup {cno})

\* dump builds seen once before the loop; pipeline rebuilds it for each region
SeenAtRegion(c, r, file, s) ==
    IF c = "pipeline"
    THEN (IF r THEN read_existing_numbers(file) ELSE {})
    ELSE s

\* processed = read_existing_numbers(out) if resume else set()
ResumeSet(r, file) == IF r THEN read_existing_numbers(file) ELSE {}

\* os.path.exists(infile) and the rows csv.DictReader gives
InfileContent(f, lf) ==
    IF f.kind = "list" THEN lf
    ELSE IF f.kind = "missing" THEN NoFile
    ELSE [exists |-> TRUE, rows |-> f.rows]

VARIABLES
    run,        \* number of invocations started
    args,       \* the parsed command line: cmd, pref, limit, max_pages, infile
    resume,     \* args.resume
    pc,         \* position of main: idle, region, page, hydrate
    status,     \* exit status of the last invocation, -1 while running
    listFile,   \* the list CSV
    enrFile,    \* the enriched CSV
    seen,       \* main: seen
    ti,         \* index into targets of the region being collected
    limit,      \* iter_corporate_list: limit
    max_pages,  \* iter_corporate_list: max_pages
    page,       \* iter_corporate_list: page
    nitems,     \* len(items) of the last page received
    yielded,    \* rows the generator has yielded for the current region
    listReqs,   \* list requests issued for the current region
    hpc,        \* position of _run_hydrate: idle, loop, done, missing
    input,      \* rows of infile as read by csv.DictReader
    hpos,       \* index of the next input row
    processed,  \* _run_hydrate: processed
    resp,       \* the answer to the last detail request
    added, errors, done,
    allResume,  \* every invocation so far had --resume
    list0,      \* rows of the list file when the invocation started
    enr0        \* rows of the enriched file when the invocation started

collectVars == << seen, ti, limit, max_pages, page, nitems, yielded, listReqs >>
hydrateVars == << hpc, input, hpos, processed, resp, added, errors, done >>
fileVars == << listFile, enrFile >>
argVars == << run, args, resume, allResume, list0, enr0 >>
vars == << argVars, pc, status, fileVars, collectVars, hydrateVars >>

Init ==
    /\ run = 0 /\ args = NoArgs /\ resume = FALSE /\ allResume = TRUE
    /\ pc = "idle" /\ status = -1
    /\ listFile = NoFile /\ enrFile = NoFile
    /\ seen = {} /\ ti = 1 /\ limit = 0 /\ max_pages = 0 /\ page = 1
    /\ nitems = 0 /\ yielded = 0 /\ listReqs = << >>
    /\ hpc = "idle" /\ input = << >> /\ hpos = 1
    /\ processed = {} /\ resp = NoResponse
    /\ added = 0 /\ errors = 0 /\ done = 0
    /\ list0 = 0 /\ enr0 = 0

ResetCollect ==
    /\ ti' = 1 /\ page' = 1 /\ nitems' = 0
    /\ yielded' = 0 /\ listReqs' = << >>

ResetHydrate ==
    /\ hpc' = "idle" /\ input' = << >> /\ hpos' = 1
    /\ processed' = {} /\ resp' = NoResponse
    /\ added' = 0 /\ errors' = 0 /\ done' = 0

\* argparse: the command line of the first invocation is the one re-run later,
\* with --resume
Begin(c, r) ==
    /\ pc = "idle" /\ run < MaxRuns
    /\ run > 0 => r
    /\ \E a \in (IF run = 0 THEN CommandLines ELSE {args}) :
          a.cmd = c /\ args' = a
    /\ run' = run + 1 /\ resume' = r /\ allResume' = (allResume /\ r)
    /\ list0' = Len(listFile.rows) /\ enr0' = Len(enrFile.rows)
    /\ UNCHANGED fileVars

\* main with GBIZ_API_TOKEN unset: return 2 before any work
StartNoToken ==
    /\ \E c \in {"dump", "hydrate", "pipeline"}, r \in BOOLEAN : Begin(c, r)
    /\ pc' = "idle" /\ status' = 2
    /\ seen' = {} /\ limit' = 0 /\ max_pages' = 0
    /\ ResetCollect /\ ResetHydrate

\* ---- dump / pipeline: collection -----------------------------------------
\* dump: lines 458-464
StartDump ==
    /\ \E r \in BOOLEAN :
          /\ Begin("dump", r)
          /\ seen' = ResumeSet(r, listFile)
    /\ limit' = DumpLimit(args'.limit)
    /\ max_pages' = DumpMaxPages(args'.max_pages)
    /\ pc' = "region" /\ status' = -1
    /\ ResetCollect /\ ResetHydrate

\* pipeline: lines 502-508
StartPipeline ==
    /\ \E r \in BOOLEAN : Begin("pipeline", r)
    /\ limit' = PipelineLimit(args'.limit)
    /\ max_pages' = PipelineMaxPages(args'.max_pages)
    /\ seen' = {}
    /\ pc' = "region" /\ status' = -1
    /\ ResetCollect /\ ResetHydrate

\* for pref in targets: the next region, a fresh generator
NextRegion ==
    /\ pc = "region" /\ ti <= Len(Targets(args.pref))
    /\ seen' = SeenAtRegion(args.cmd, resume, listFile, seen)
    /\ page' = 1 /\ nitems' = 0
    /\ yielded' = 0 /\ listReqs' = << >>
    /\ pc' = "page"
    /\ UNCHANGED << argVars, status, fileVars, ti, limit, max_pages, hydrateVars >>

\* iter_corporate_list: one pass of "for page in range(1, max_pages + 1)", with
\* the body of main's loop run for each row the pass yields
ListPage ==
    /\ pc = "page" /\ PageInRange(page, max_pages)
    /\ \E rsp \in ListResponses :
          LET js == _get_json(rsp) IN
          /\ listReqs' = Append(listReqs,
                 [page |-> page, limit |-> limit, status |-> rsp.status])
          /\ IF js.raised
             THEN \* RuntimeError propagates out of main: traceback, status 1
                  /\ pc' = "idle" /\ status' = 1
                  /\ UNCHANGED << listFile, seen, ti, page, nitems, yielded >>
             ELSE IF js.items = << >>
             THEN \* break
                  /\ pc' = "region" /\ ti' = ti + 1
                  /\ nitems' = 0
                  /\ UNCHANGED << listFile, seen, status, page, yielded >>
             ELSE LET rows == Yields(js.items)
                      after == ConsumeRows(rows, listFile, seen)
                  IN  /\ nitems' = Len(js.items)
                      /\ yielded' = yielded + Len(rows)
                      /\ listFile' = after.file
                      /\ seen' = after.seen
                      /\ IF LastPage(Len(js.items), limit)
                         THEN pc' = "region" /\ ti' = ti + 1 /\ UNCHANGED page
                         ELSE pc' = "page" /\ page' = page + 1 /\ UNCHANGED ti
                      /\ UNCHANGED status
    /\ UNCHANGED << argVars, enrFile, limit, max_pages, hydrateVars >>

\* range(1, max_pages + 1) is exhausted
PagesExhausted ==
    /\ pc = "page" /\ ~PageInRange(page, max_pages)
    /\ pc' = "region" /\ ti' = ti + 1
    /\ UNCHANGED << argVars, status, fileVars, seen, limit, max_pages, page,
                    nitems, yielded, listReqs, hydrateVars >>

\* targets exhausted: dump returns 0, pipeline goes on to _run_hydrate; the
\* generator and the loop's locals are not used again
CollectDone ==
    /\ pc = "region" /\ ti > Len(Targets(args.pref))
    /\ IF args.cmd = "dump"
       THEN pc' = "idle" /\ status' = 0
       ELSE pc' = "hydrate" /\ UNCHANGED status
    /\ seen' = {} /\ page' = 1 /\ nitems' = 0 /\ yielded' = 0 /\ listReqs' = << >>
    /\ UNCHANGED << argVars, fileVars, ti, limit, max_pages, hydrateVars >>

\* ---- hydrate -----------------------------------------------------------
StartHydrate ==
    /\ \E r \in BOOLEAN : Begin("hydrate", r)
    /\ seen' = {} /\ limit' = 0 /\ max_pages' = 0
    /\ pc' = "hydrate" /\ status' = -1
    /\ ResetCollect /\ ResetHydrate

\* _run_hydrate up to the csv.DictReader: lines 253-277
HydrateOpen ==
    /\ pc = "hydrate" /\ hpc = "idle"
    /\ LET p == ResumeSet(resume, enrFile)
           f == InfileContent(args.infile, listFile)
       IN  /\ processed' = p
           /\ IF ~f.exists
              THEN \* "ERROR: not found", return 0
                   /\ hpc' = "missing" /\ pc' = "idle" /\ status' = 0
                   /\ UNCHANGED input
              ELSE /\ hpc' = "loop" /\ input' = f.rows
                   /\ UNCHANGED << pc, status >>
    /\ UNCHANGED << argVars, fileVars, collectVars, hpos, resp, added, errors, done >>

\* "continue" at line 281
HydrateSkipRow ==
    /\ pc = "hydrate" /\ hpc = "loop" /\ hpos <= Len(input)
    /\ HydrateSkips(Cno(Some(input[hpos])), processed)
    /\ hpos' = hpos + 1
    /\ UNCHANGED << argVars, pc, status, fileVars, collectVars, hpc, input,
                    processed, resp, added, errors, done >>

\* lines 283-299 for one row
HydrateFetchRow ==
    /\ pc = "hydrate" /\ hpc = "loop" /\ hpos <= Len(input)
    /\ LET cno == Cno(Some(input[hpos])) IN
       /\ ~HydrateSkips(cno, processed)
       /\ \E rsp \in DetailResponses :
             LET res == fetch_basic_with_session(rsp) IN
             /\ resp' = rsp
             /\ IF res = "raise" /\ ~Caught(res)
                THEN \* the exception leaves _run_hydrate and main
                     /\ pc' = "idle" /\ status' = 1 /\ hpc' = "crashed"
                     /\ UNCHANGED << enrFile, processed, added, errors, done, hpos >>
                ELSE /\ errors' = NextErrors(errors, res)
                     /\ IF res = "rec"
                        THEN /\ enrFile' = append_rows(enrFile, Some(cno))
                             /\ processed' = processed \cup {cno}
                             /\ added' = added + 1
                        ELSE UNCHANGED << enrFile, processed, added >>
                     /\ done' = done + 1
                     /\ hpos' = hpos + 1
                     /\ UNCHANGED << pc, status, hpc >>
    /\ UNCHANGED << argVars, listFile, collectVars, input >>

\* input exhausted: final progress line, summary, return added: lines 318-326.
\* done, added and errors stay as the final progress line prints them; the
\* other locals of _run_hydrate end with it.
HydrateFinalize ==
    /\ pc = "hydrate" /\ hpc = "loop" /\ hpos > Len(input)
    /\ hpc' = "done" /\ pc' = "idle" /\ status' = 0
    /\ input' = << >> /\ hpos' = 1 /\ processed' = {} /\ resp' = NoResponse
    /\ UNCHANGED << argVars, fileVars, collectVars, added, errors, done >>

Next ==
    \/ StartNoToken
    \/ StartDump
    \/ StartPipeline
    \/ StartHydrate
    \/ NextRegion
    \/ ListPage
    \/ PagesExhausted
    \/ CollectDone
    \/ HydrateOpen
    \/ HydrateSkipRow
    \/ HydrateFetchRow
    \/ HydrateFinalize

Spec == Init /\ [][Next]_vars

\* _run_hydrate is straight-line sequential code and every request returns or
\* raises within TIMEOUT and the bounded retries: a step that can be taken is taken
HydrateStep == HydrateOpen \/ HydrateSkipRow \/ HydrateFetchRow \/ HydrateFinalize

LiveSpec == Init /\ [][Next]_vars /\ WF_vars(HydrateStep)

\* ---- properties ----------------------------------------------------------
Last(sq) == sq[Len(sq)]

Collecting == args.cmd \in {"dump", "pipeline"}

\* no two rows of rows[from..] and no row of rows[from..] and an earlier row
\* hold the same stripped identifier
FreshRowsUnique(rows, from) ==
    \A i \in from..Len(rows) : \A j \in 1..(i - 1) : Strip(rows[i]) # Strip(rows[j])

\* the rows appended by the current invocation are pairwise different
AppendedOnce(rows, start) ==
    \A i \in (start + 1)..Len(rows) : \A j \in (start + 1)..(i - 1) :
        Strip(rows[i]) # Strip(rows[j])

\* C1: collection runs that all had --resume never leave two rows with the same
\* stripped identifier in the list file, and a --resume run never appends an
\* identifier the list file already holds (dump and pipeline alike)
C1_CollectionDedup ==
    Collecting =>
        /\ allResume => FreshRowsUnique(listFile.rows, 1)
        /\ resume => FreshRowsUnique(listFile.rows, list0 + 1)

\* a second --resume run has been served rows and the file holds rows of both runs
C1_Witness ==
    /\ Collecting /\ allResume /\ run = 2 /\ pc = "region" /\ ti > 1
    /\ list0 >= 1 /\ Len(listFile.rows) > list0
    /\ yielded > Len(listFile.rows) - list0

\* C2: with --resume, every identifier of the enriched file is in the resume set,
\* and no detail request is issued and no row appended for an identifier of the
\* resume set
InputCno == Cno(Some(input[hpos]))

C2_EnrichmentSkip ==
    [][ (resume /\ pc = "hydrate" /\ hpc = "loop") =>
          /\ \A i \in 1..Len(enrFile.rows) : Strip(enrFile.rows[i]) \in processed
          /\ (done' # done \/ enrFile' # enrFile) => InputCno \notin processed ]_vars

\* a --resume run has read an input row whose identifier the enriched file held at
\* the start, and has fetched another row
C2_Witness ==
    /\ resume /\ pc = "hydrate" /\ hpc = "loop" /\ enr0 >= 1 /\ done >= 1
    /\ \E j \in 1..(hpos - 1) : \E i \in 1..enr0 :
          Strip(input[j]) = Strip(enrFile.rows[i])

FetchFailed(r) == r.status \in {500, -1}

\* a step of the loop that issued a detail request
Fetching == pc = "hydrate" /\ hpc = "loop" /\ (done' # done \/ hpc' # "loop")

\* C3: a failed detail fetch adds exactly one to the error counter, appends no row
\* and leaves the loop at the next row; a row with a non-empty identifier outside
\* the resume set is always fetched; the loop ends only when the input is exhausted
C3_ErrorIsolation ==
    [][ /\ (Fetching /\ hpc' # "done" /\ FetchFailed(resp')) =>
              /\ errors' = errors + 1 /\ enrFile' = enrFile /\ added' = added
              /\ pc' = "hydrate" /\ hpc' = "loop" /\ hpos' = hpos + 1
        /\ (pc = "hydrate" /\ hpc = "loop" /\ hpos <= Len(input)
              /\ Strip(input[hpos]) # << >> /\ Strip(input[hpos]) \notin processed) =>
              /\ done' = done + 1 /\ hpos' = hpos + 1
        /\ (hpc = "loop" /\ hpc' # "loop") => (hpc' = "done" /\ hpos > Len(input))
      ]_vars

\* a row was fetched and appended after an earlier fetch had failed
C3_Witness ==
    /\ pc = "hydrate" /\ hpc = "loop" /\ errors >= 1 /\ added >= 1
    /\ resp.status = 200 /\ resp.found

\* C4: the list requests of one region carry the pages 1, 2, ... in order, and
\* there are at most max_pages of them
C4_CeilingEnforcement ==
    /\ \A i \in 1..Len(listReqs) : listReqs[i].page = i
    /\ Len(listReqs) <= Max(max_pages, 0)

\* every page up to the ceiling was full and the region stopped at the ceiling
C4_Witness ==
    /\ pc = "page" /\ max_pages >= 2 /\ page = max_pages + 1
    /\ Len(listReqs) = max_pages /\ nitems >= limit

\* C5: a further page is requested only after a page that was neither empty nor
\* short; a region that ends after one request has yielded exactly the items of
\* that page
C5_PaginationTermination ==
    /\ (pc = "page" /\ page > 1) => (nitems > 0 /\ nitems >= limit)
    /\ (pc = "page" /\ page > 1) => Len(listReqs) = page - 1
    /\ (pc = "region" /\ Len(listReqs) = 1) => yielded = nitems

\* a region ended after one short, non-empty page
C5_Witness ==
    /\ pc = "region" /\ Len(listReqs) = 1 /\ limit = 2
    /\ nitems = 1 /\ yielded = 1

\* C6: within one invocation no identifier is appended twice to the list file,
\* nor twice to the enriched file
C6_OncePerRun ==
    /\ AppendedOnce(listFile.rows, list0)
    /\ AppendedOnce(enrFile.rows, enr0)

\* C7: once the input is open the loop reaches the final step, and only with the
\* input exhausted; a missing input file ends the run with no fetch and no row
C7_AlwaysFinalizes ==
    /\ (pc = "hydrate" /\ hpc = "loop") ~> (hpc = "done")
    /\ [][ (hpc = "loop" /\ hpc' # "loop") => (hpc' = "done" /\ hpos > Len(input)) ]_vars
    /\ [](hpc = "missing" =>
             (done = 0 /\ added = 0 /\ errors = 0 /\ Len(enrFile.rows) = enr0))

\* the final step was reached after a success, a not-found and a failure
C7_Witness ==
    hpc = "done" /\ added >= 1 /\ errors >= 1 /\ done >= 3

NotFoundAnswer(r) == r.status \in {204, 404} \/ (r.status = 200 /\ ~r.found)

\* C8: a detail lookup answered 204, 404 or 200 with no item appends no row,
\* leaves errors, added and the resume set as they are, and goes to the next row
C8_NotFoundIsNoError ==
    [][ (Fetching /\ hpc' # "done" /\ NotFoundAnswer(resp')) =>
          /\ enrFile' = enrFile /\ errors' = errors /\ added' = added
          /\ processed' = processed
          /\ pc' = "hydrate" /\ hpc' = "loop" /\ hpos' = hpos + 1 ]_vars

\* a lookup was answered 404 and the loop went on to fetch and append another row
C8_Witness ==
    /\ pc = "hydrate" /\ hpc = "loop" /\ done >= 2 /\ errors = 0 /\ added = 1
    /\ resp.status = 404 /\ Len(enrFile.rows) = enr0 + 1

ListFailed(rq) == rq.status \notin {200, 204}

\* C9: a failed list request ends the invocation at once with status 1, with both
\* files as they were and enrichment not started; the list file only ever grows at
\* its end; after the exit nothing happens but a new invocation
C9_FailureKeepsProgress ==
    [][ /\ (Collecting /\ listReqs' # listReqs /\ listReqs' # << >>
              /\ ListFailed(Last(listReqs'))) =>
              /\ pc' = "idle" /\ status' = 1 /\ hpc' = "idle"
              /\ listFile' = listFile /\ enrFile' = enrFile
        /\ IsPrefix(listFile.rows, listFile'.rows)
        /\ (pc = "idle") => (run' = run + 1)
      ]_vars

\* a list request failed on a later page of a later region, after rows were appended
C9_Witness ==
    /\ args.cmd = "pipeline" /\ pc = "idle" /\ status = 1 /\ hpc = "idle"
    /\ ti >= 2 /\ Len(listReqs) >= 2 /\ ListFailed(Last(listReqs))
    /\ Len(listFile.rows) >= list0 + 2

\* C10: every list request carries a page size within 1..5000 and no region
\* receives more than 10 list requests
C10_PageBounds ==
    /\ \A i \in 1..Len(listReqs) :
          listReqs[i].limit >= 1 /\ listReqs[i].limit <= LimitCeiling
    /\ Len(listReqs) <= PagesCeiling

====
